---- MODULE Spec2Model ----
(***************************************************************************)
(* pkg/config/type.go of mysql-backup: the Targets table of a Config, its  *)
(* YAML decoder (Targets.UnmarshalYAML) and the per-variant Storage()      *)
(* factories of S3Target, SMBTarget and FileTarget.                        *)
(***************************************************************************)
EXTENDS Integers, Sequences, FiniteSets, TLC

\* Largest number of entries of a `targets` table in a document.
MaxEntries == 2
\* Number of workers that call Storage() concurrently.
NumWorkers == 2

Names == {"a", "b"}
Workers == 1..NumWorkers

GoodURL == "file:///backups"
BadURL == ":bad"

VARIABLES
    targets,    \* Config.Targets, the receiver of UnmarshalYAML
    load,       \* the decode of the Config: document, receiver before, error
    resolved,   \* the last Storage() call of the sequential caller
    reloaded,   \* the Config encoded and decoded again
    pc,         \* per worker: where its Storage() call stands
    callee,     \* per worker: the name it looked up in Targets
    self,       \* per worker: the value receiver, a copy of the Target
    parsed,     \* per worker: the URL returned by util.SmartParse
    ret,        \* per worker: what Storage() returned
    lastDone    \* the call that returned last

loadVars == <<targets, load, resolved, reloaded>>
workerVars == <<pc, callee, self, parsed, ret, lastDone>>
vars == <<targets, load, resolved, reloaded, pc, callee, self, parsed, ret, lastDone>>

-----------------------------------------------------------------------------
(* Errors.  A Go error is a kind (the fixed part of its message) and an    *)
(* arg (the formatted part).  A yaml decode error names the line of the    *)
(* offending entry; the entry's key stands for that line.                  *)
Err(kind, arg) == [kind |-> kind, arg |-> arg]
NoError == Err("nil", "")
DecodeError(where) == Err("yaml: unmarshal errors", where)
NilMapPanic == Err("panic", "assignment to entry in nil map")

-----------------------------------------------------------------------------
(* yaml.Node: a scalar with a value, or a mapping whose content is the     *)
(* sequence of <<key, node>> pairs in document order.                      *)
Scalar(v) == [kind |-> "scalar", val |-> v, content |-> <<>>]
Mapping(es) == [kind |-> "mapping", val |-> "", content |-> es]

Keys(n) == {n.content[i][1] : i \in DOMAIN n.content}
HasKey(n, k) == n.kind = "mapping" /\ k \in Keys(n)
Value(n, k) == n.content[CHOOSE i \in DOMAIN n.content : n.content[i][1] = k][2]

\* A decoder without the uniqueness check of mapping keys.
NoUniqueKeys(n) == FALSE
\* yaml.v3 refuses a mapping in which a key is defined twice.
DuplicateKeys(n) ==
    \E i, j \in DOMAIN n.content : i < j /\ n.content[i][1] = n.content[j][1]

\* Decoding mapping n into a struct: n is a mapping with unique keys.
StructShapeOK(n) == n.kind = "mapping" /\ ~DuplicateKeys(n)
\* A `string` field tagged k: absent keeps the zero value, a scalar sets it,
\* a mapping is a type error.
StringFieldOK(n, k) == HasKey(n, k) => Value(n, k).kind = "scalar"
StringField(n, k) ==
    IF HasKey(n, k) /\ Value(n, k).kind = "scalar" THEN Value(n, k).val ELSE ""
\* A struct field tagged k whose own fields are the strings tagged ks.
StructFieldOK(n, k, ks) ==
    HasKey(n, k) =>
        /\ StructShapeOK(Value(n, k))
        /\ \A f \in ks : StringFieldOK(Value(n, k), f)
SubField(n, k, f) == IF HasKey(n, k) THEN StringField(Value(n, k), f) ELSE ""

-----------------------------------------------------------------------------
(* The URL-parsing collaborator util.SmartParse.                           *)
Scheme(u) == IF u = GoodURL THEN "file" ELSE ""
SmartParse(u) ==
    IF u = GoodURL
    THEN [err |-> NoError, url |-> u, scheme |-> Scheme(u)]
    ELSE [err |-> Err("parse", u), url |-> "", scheme |-> ""]

-----------------------------------------------------------------------------
(* The three Target variants.                                              *)
ZeroS3Target ==
    [variant |-> "S3Target", targetType |-> "", url |-> "", Region |-> "",
     Endpoint |-> "", AccessKeyId |-> "", SecretAccessKey |-> ""]
ZeroSMBTarget ==
    [variant |-> "SMBTarget", targetType |-> "", url |-> "", Domain |-> "",
     Username |-> "", Password |-> ""]
ZeroFileTarget == [variant |-> "FileTarget", targetType |-> "", url |-> ""]

Type(s) == s.targetType
URL(s) == s.url

\* A probe that also validates the URL while decoding.
DecodeProbeEager(n) ==
    IF /\ StructShapeOK(n) /\ StringFieldOK(n, "type") /\ StringFieldOK(n, "url")
       /\ SmartParse(StringField(n, "url")).err = NoError
    THEN [err |-> NoError, Type |-> StringField(n, "type"), URL |-> StringField(n, "url")]
    ELSE [err |-> DecodeError(""), Type |-> "", URL |-> ""]
\* yamlTarget.Decode(&tmpT): the probe struct {Type, URL}.
DecodeProbe(n) ==
    IF StructShapeOK(n) /\ StringFieldOK(n, "type") /\ StringFieldOK(n, "url")
    THEN [err |-> NoError, Type |-> StringField(n, "type"), URL |-> StringField(n, "url")]
    ELSE [err |-> DecodeError(""), Type |-> "", URL |-> ""]

\* yamlTarget.Decode(&s3Target): only the exported fields are decoded; the
\* unexported targetType and url stay zero whatever their tags say.
DecodeS3Target(n) ==
    IF /\ StructShapeOK(n)
       /\ StringFieldOK(n, "region") /\ StringFieldOK(n, "endpoint")
       /\ StructFieldOK(n, "credentials", {"access-key-id", "secret-access-key"})
    THEN [err |-> NoError,
          v |-> [ZeroS3Target EXCEPT
                   !.Region = StringField(n, "region"),
                   !.Endpoint = StringField(n, "endpoint"),
                   !.AccessKeyId = SubField(n, "credentials", "access-key-id"),
                   !.SecretAccessKey = SubField(n, "credentials", "secret-access-key")]]
    ELSE [err |-> DecodeError(""), v |-> ZeroS3Target]

DecodeSMBTarget(n) ==
    IF /\ StructShapeOK(n)
       /\ StructFieldOK(n, "credentials", {"domain", "username", "password"})
    THEN [err |-> NoError,
          v |-> [ZeroSMBTarget EXCEPT
                   !.Domain = SubField(n, "credentials", "domain"),
                   !.Username = SubField(n, "credentials", "username"),
                   !.Password = SubField(n, "credentials", "password")]]
    ELSE [err |-> DecodeError(""), v |-> ZeroSMBTarget]

DecodeFileTarget(n) ==
    IF StructShapeOK(n)
    THEN [err |-> NoError, v |-> ZeroFileTarget]
    ELSE [err |-> DecodeError(""), v |-> ZeroFileTarget]

-----------------------------------------------------------------------------
(* Targets (map[string]Target): a Go map is nil or allocated.              *)
NilTargets == [isNil |-> TRUE, m |-> <<>>]
EmptyTargets == [isNil |-> FALSE, m |-> <<>>]
Insert(t, key, v) ==
    [t EXCEPT !.m = [k \in (DOMAIN t.m) \cup {key} |-> IF k = key THEN v ELSE t.m[k]]]

\* unmarshal(&tmpTargets): the node is decoded into a struct whose one field
\* is the map tagged `targets`; the result is that map, or an error.
DecodeTmpTargets(n) ==
    IF ~StructShapeOK(n) THEN [err |-> DecodeError("targets"), Targets |-> <<>>]
    ELSE IF ~HasKey(n, "targets") THEN [err |-> NoError, Targets |-> <<>>]
    ELSE LET inner == Value(n, "targets") IN
         IF inner.kind # "mapping" \/ DuplicateKeys(inner)
         THEN [err |-> DecodeError("targets"), Targets |-> <<>>]
         ELSE [err |-> NoError, Targets |-> [k \in Keys(inner) |-> Value(inner, k)]]

\* One iteration of the loop body (lines 102-136) with its outcome: an error
\* that ends the call, or the Target to insert.
DecodeEntry(key, yamlTarget) ==
    LET tmpT == DecodeProbe(yamlTarget)
        stamp(d) == [err |-> IF d.err = NoError THEN NoError ELSE DecodeError(key),
                     v |-> [d.v EXCEPT !.targetType = tmpT.Type, !.url = tmpT.URL]]
    IN IF tmpT.err # NoError THEN [err |-> DecodeError(key), v |-> ZeroFileTarget]
       ELSE CASE tmpT.Type = "s3" -> stamp(DecodeS3Target(yamlTarget))
              [] tmpT.Type = "smb" -> stamp(DecodeSMBTarget(yamlTarget))
              [] tmpT.Type = "file" -> stamp(DecodeFileTarget(yamlTarget))
              [] OTHER -> [err |-> Err("unknown target type", tmpT.Type),
                           v |-> ZeroFileTarget]

\* The loop over tmpTargets.Targets in the order the map is ranged over.
RECURSIVE RangeTargets(_, _, _)
RangeTargets(t, tmp, order) ==
    IF order = <<>> THEN [err |-> NoError, t |-> t]
    ELSE LET key == Head(order)
             e == DecodeEntry(key, tmp[key])
         IN IF e.err # NoError THEN [err |-> e.err, t |-> t]
            ELSE IF t.isNil THEN [err |-> NilMapPanic, t |-> t]
            ELSE RangeTargets(Insert(t, key, e.v), tmp, Tail(order))

\* Targets.UnmarshalYAML on receiver t, handed node n, ranging in `order`.
UnmarshalYAML(t, n, order) ==
    LET tmpTargets == DecodeTmpTargets(n)
    IN IF tmpTargets.err # NoError THEN [err |-> tmpTargets.err, t |-> t]
       ELSE RangeTargets(t, tmpTargets.Targets, order)

\* The orders in which Go may range over a map with these keys.
Orders(S) ==
    {o \in [1..Cardinality(S) -> S] : \A i, j \in DOMAIN o : i # j => o[i] # o[j]}
RangeOrders(n) ==
    LET tmpTargets == DecodeTmpTargets(n)
    IN IF tmpTargets.err # NoError THEN {<<>>} ELSE Orders(DOMAIN tmpTargets.Targets)

-----------------------------------------------------------------------------
(* Storage(): the per-variant factories.  A result is the pair the Go code *)
(* returns: the error and the store, which records the constructor that    *)
(* made it, the parsed URL and the options it was given.                   *)
NilStorage == [new |-> "none", url |-> "", opts |-> <<>>]
NilResult == [err |-> NoError, store |-> NilStorage]
Option(name, v) == IF v # "" THEN << <<name, v>> >> ELSE <<>>

\* fmt.Errorf("invalid target url%v", err)
InvalidURL(p) == [err |-> Err("invalid target url", p.err.arg), store |-> NilStorage]

\* Options kept in one list that every call appends to.
S3OptionsShared(s) ==
    (IF lastDone.done THEN lastDone.ret.store.opts ELSE <<>>)
      \o Option("WithRegion", s.Region) \o Option("WithEndpoint", s.Endpoint)
      \o Option("WithAccessKeyId", s.AccessKeyId)
      \o Option("WithSecretAccessKey", s.SecretAccessKey)
\* Options that pass every field on, set or not.
S3OptionsAll(s) ==
    << <<"WithRegion", s.Region>>, <<"WithEndpoint", s.Endpoint>>,
       <<"WithAccessKeyId", s.AccessKeyId>>,
       <<"WithSecretAccessKey", s.SecretAccessKey>> >>
\* opts of S3Target.Storage (lines 161-173).
S3Options(s) ==
    Option("WithRegion", s.Region) \o Option("WithEndpoint", s.Endpoint)
      \o Option("WithAccessKeyId", s.AccessKeyId)
      \o Option("WithSecretAccessKey", s.SecretAccessKey)
\* opts of SMBTarget.Storage (lines 200-209).
SMBOptions(s) ==
    Option("WithDomain", s.Domain) \o Option("WithUsername", s.Username)
      \o Option("WithPassword", s.Password)

S3New(p, opts) == [err |-> NoError, store |-> [new |-> "s3.New", url |-> p.url, opts |-> opts]]
SMBNew(p, opts) == [err |-> NoError, store |-> [new |-> "smb.New", url |-> p.url, opts |-> opts]]

\* A factory that goes on to the constructor whatever the parse said.
S3TargetStorageUnchecked(s) == S3New(SmartParse(s.url), S3Options(s))
S3TargetStorage(s) ==
    LET p == SmartParse(s.url)
    IN IF p.err # NoError THEN InvalidURL(p) ELSE S3New(p, S3Options(s))
SMBTargetStorage(s) ==
    LET p == SmartParse(s.url)
    IN IF p.err # NoError THEN InvalidURL(p) ELSE SMBNew(p, SMBOptions(s))

\* storage.ParseURL, the generic resolver that dispatches on the scheme.
SupportedSchemes == {"file", "smb", "s3"}
ParseURL(u) ==
    LET p == SmartParse(u)
    IN IF p.err # NoError THEN InvalidURL(p)
       ELSE IF p.scheme \notin SupportedSchemes
       THEN [err |-> Err("unknown url protocol", p.scheme), store |-> NilStorage]
       ELSE [err |-> NoError,
             store |-> [new |-> "storage.ParseURL", url |-> p.url, opts |-> <<>>]]
FileTargetStorage(f) == ParseURL(f.url)

\* Target.Storage(): dispatch on the dynamic type of the interface value.
Storage(s) ==
    CASE s.variant = "S3Target" -> S3TargetStorage(s)
      [] s.variant = "SMBTarget" -> SMBTargetStorage(s)
      [] OTHER -> FileTargetStorage(s)

-----------------------------------------------------------------------------
(* Encoding a Config: yaml.Marshal writes the exported fields of each      *)
(* Target under its tag, and a map's keys in sorted order.                 *)
NameOrder == <<"a", "b">>
MarshalTarget(s) ==
    CASE s.variant = "S3Target" ->
           Mapping(<< <<"region", Scalar(s.Region)>>, <<"endpoint", Scalar(s.Endpoint)>>,
                      <<"credentials",
                        Mapping(<< <<"access-key-id", Scalar(s.AccessKeyId)>>,
                                   <<"secret-access-key", Scalar(s.SecretAccessKey)>> >>)>> >>)
      [] s.variant = "SMBTarget" ->
           Mapping(<< <<"credentials",
                        Mapping(<< <<"domain", Scalar(s.Domain)>>,
                                   <<"username", Scalar(s.Username)>>,
                                   <<"password", Scalar(s.Password)>> >>)>> >>)
      [] OTHER -> Mapping(<<>>)
MarshalTargets(t) ==
    LET ks == SelectSeq(NameOrder, LAMBDA k : k \in DOMAIN t.m)
    IN Mapping([i \in DOMAIN ks |-> <<ks[i], MarshalTarget(t.m[ks[i]])>>])

-----------------------------------------------------------------------------
(* Documents.  A declaration is the node of one entry of a `targets`       *)
(* table; a document is its table, written directly under the root key    *)
(* `targets` (the documented layout) or one level further down, under a    *)
(* second key `targets`.                                                   *)
Field(k, v) == IF v = "" THEN <<>> ELSE << <<k, Scalar(v)>> >>
Group(k, es) == IF es = <<>> THEN <<>> ELSE << <<k, Mapping(es)>> >>
S3Decl(u, region, endpoint, ak, sk) ==
    Mapping(<< <<"type", Scalar("s3")>>, <<"url", Scalar(u)>> >>
            \o Field("region", region) \o Field("endpoint", endpoint)
            \o Group("credentials",
                     Field("access-key-id", ak) \o Field("secret-access-key", sk)))
SMBDecl(u, domain, username, password) ==
    Mapping(<< <<"type", Scalar("smb")>>, <<"url", Scalar(u)>> >>
            \o Group("credentials",
                     Field("domain", domain) \o Field("username", username)
                       \o Field("password", password)))
FileDecl(u) == Mapping(<< <<"type", Scalar("file")>>, <<"url", Scalar(u)>> >>)

WellFormedDecls ==
    { S3Decl(GoodURL, "us-east-1", "https://minio", "AKIA", "secret"),
      S3Decl(GoodURL, "us-east-1", "", "", ""),
      S3Decl(BadURL, "", "", "", ""),
      SMBDecl(GoodURL, "", "backup", "pw"),
      SMBDecl(BadURL, "CORP", "backup", "pw"),
      FileDecl(GoodURL), FileDecl(BadURL) }
UnknownTypeDecls ==
    { Mapping(<< <<"type", Scalar("ftp")>>, <<"url", Scalar(GoodURL)>> >>),
      Mapping(<< <<"url", Scalar(GoodURL)>> >>) }
MalformedDecls ==
    { Mapping(<< <<"type", Scalar("s3")>>, <<"url", Scalar(GoodURL)>>,
                 <<"region", Mapping(<< <<"name", Scalar("us-east-1")>> >>)>> >>),
      Scalar("s3") }
Decls == WellFormedDecls \cup UnknownTypeDecls \cup MalformedDecls

Tables == UNION {[1..n -> Names \X Decls] : n \in 0..MaxEntries}
Documents == [form : {"direct", "nested"}, es : Tables]
\* The node of the root key `targets`, which yaml hands to UnmarshalYAML.
Root(doc) ==
    IF doc.form = "direct" THEN Mapping(doc.es)
    ELSE Mapping(<< <<"targets", Mapping(doc.es)>> >>)

-----------------------------------------------------------------------------
NoLoad == [done |-> FALSE, doc |-> [form |-> "direct", es |-> <<>>],
           recv |-> NilTargets, order |-> <<>>, err |-> NoError]
NoCall == [done |-> FALSE, name |-> "", self |-> ZeroFileTarget, ret |-> NilResult,
           before |-> <<>>]
NoReload == [done |-> FALSE, node |-> Mapping(<<>>), err |-> NoError, t |-> NilTargets]
NoURL == [err |-> NoError, url |-> "", scheme |-> ""]

WorkersIdle ==
    /\ pc = [w \in Workers |-> "idle"]
    /\ callee = [w \in Workers |-> ""]
    /\ self = [w \in Workers |-> ZeroFileTarget]
    /\ parsed = [w \in Workers |-> NoURL]
    /\ ret = [w \in Workers |-> NilResult]
    /\ lastDone = NoCall

\* A Config as the caller makes it: Targets nil (var cfg Config) or allocated.
Init ==
    /\ targets \in {NilTargets, EmptyTargets}
    /\ load = NoLoad
    /\ resolved = NoCall
    /\ reloaded = NoReload
    /\ WorkersIdle

\* yaml decodes document doc into the Config: the `targets` node goes to
\* Targets.UnmarshalYAML, which writes into the receiver as it goes.  A
\* Config is decoded into once; a panic is recorded as the load's error.
Load(doc, order) ==
    /\ ~load.done
    /\ LET r == UnmarshalYAML(targets, Root(doc), order)
       IN /\ targets' = r.t
          /\ load' = [done |-> TRUE, doc |-> doc, recv |-> targets, order |-> order,
                      err |-> r.err]
    /\ UNCHANGED <<resolved, reloaded>>
    /\ UNCHANGED workerVars

\* The caller looks a target up by name and calls its Storage().
Resolve(name) ==
    /\ load.done /\ load.err = NoError
    /\ name \in DOMAIN targets.m
    /\ resolved' = [done |-> TRUE, name |-> name, self |-> targets.m[name],
                    ret |-> Storage(targets.m[name]),
                    before |-> [n \in DOMAIN targets.m |-> Storage(targets.m[n])]]
    /\ UNCHANGED <<targets, load, reloaded>>
    /\ UNCHANGED workerVars

\* The loaded Config is encoded and the text decoded into a new Config.
RoundTrip(fresh, order) ==
    /\ load.done /\ load.err = NoError
    /\ ~reloaded.done
    /\ LET node == MarshalTargets(targets)
           r == UnmarshalYAML(fresh, node, order)
       IN /\ order \in RangeOrders(node)
          /\ reloaded' = [done |-> TRUE, node |-> node, err |-> r.err, t |-> r.t]
    /\ UNCHANGED <<targets, load, resolved>>
    /\ UNCHANGED workerVars

Next ==
    \/ \E doc \in Documents : \E order \in RangeOrders(Root(doc)) : Load(doc, order)
    \/ \E name \in Names : Resolve(name)
    \/ \E fresh \in {NilTargets, EmptyTargets} : \E order \in Orders(Names) \cup {<<>>} :
          RoundTrip(fresh, order)

Spec == Init /\ [][Next]_vars

-----------------------------------------------------------------------------
(* Workers that resolve targets concurrently.  The Config was loaded       *)
(* before they start; each call runs in the steps of the method body.      *)

\* The Targets a successful load into an allocated map leaves.
LoadedTargets ==
    UNION {{UnmarshalYAML(EmptyTargets, Root(doc), order).t :
               order \in {o \in RangeOrders(Root(doc)) :
                             UnmarshalYAML(EmptyTargets, Root(doc), o).err = NoError}} :
           doc \in Documents}

InitStorage ==
    /\ targets \in LoadedTargets
    /\ load = NoLoad
    /\ resolved = NoCall
    /\ reloaded = NoReload
    /\ WorkersIdle

\* Worker w looks name up and calls Storage() on the value: the receiver is
\* a copy of the Target.
Call(w, name) ==
    /\ pc[w] = "idle"
    /\ name \in DOMAIN targets.m
    /\ callee' = [callee EXCEPT ![w] = name]
    /\ self' = [self EXCEPT ![w] = targets.m[name]]
    /\ pc' = [pc EXCEPT ![w] = "parse"]
    /\ UNCHANGED <<parsed, ret, lastDone>>
    /\ UNCHANGED loadVars

\* util.SmartParse(s.url) and the error return (lines 157-160, 196-199); a
\* FileTarget hands its url to storage.ParseURL and returns what it returns.
Parse(w) ==
    /\ pc[w] = "parse"
    /\ IF self[w].variant = "FileTarget"
       THEN /\ ret' = [ret EXCEPT ![w] = FileTargetStorage(self[w])]
            /\ pc' = [pc EXCEPT ![w] = "done"]
            /\ UNCHANGED parsed
       ELSE LET p == SmartParse(self[w].url)
            IN IF p.err # NoError
               THEN /\ ret' = [ret EXCEPT ![w] = InvalidURL(p)]
                    /\ pc' = [pc EXCEPT ![w] = "done"]
                    /\ UNCHANGED parsed
               ELSE /\ parsed' = [parsed EXCEPT ![w] = p]
                    /\ pc' = [pc EXCEPT ![w] = "build"]
                    /\ UNCHANGED ret
    /\ UNCHANGED <<callee, self, lastDone>>
    /\ UNCHANGED loadVars

\* The option list and the constructor (lines 161-175, 200-211).
Build(w) ==
    /\ pc[w] = "build"
    /\ ret' = [ret EXCEPT ![w] =
                 IF self[w].variant = "S3Target"
                 THEN S3New(parsed[w], S3Options(self[w]))
                 ELSE SMBNew(parsed[w], SMBOptions(self[w]))]
    /\ pc' = [pc EXCEPT ![w] = "done"]
    /\ UNCHANGED <<callee, self, parsed, lastDone>>
    /\ UNCHANGED loadVars

\* The caller takes the result.
Return(w) ==
    /\ pc[w] = "done"
    /\ lastDone' = [done |-> TRUE, name |-> callee[w], self |-> self[w],
                    ret |-> ret[w], before |-> <<>>]
    /\ pc' = [pc EXCEPT ![w] = "idle"]
    /\ callee' = [callee EXCEPT ![w] = ""]
    /\ self' = [self EXCEPT ![w] = ZeroFileTarget]
    /\ parsed' = [parsed EXCEPT ![w] = NoURL]
    /\ ret' = [ret EXCEPT ![w] = NilResult]
    /\ UNCHANGED loadVars

NextStorage ==
    \/ \E w \in Workers : \E name \in Names : Call(w, name)
    \/ \E w \in Workers : Parse(w)
    \/ \E w \in Workers : Build(w)
    \/ \E w \in Workers : Return(w)

SpecStorage == InitStorage /\ [][NextStorage]_vars

-----------------------------------------------------------------------------
(* What the claims speak of.                                               *)
KnownTypes == {"s3", "smb", "file"}
VariantOf(t) ==
    CASE t = "s3" -> "S3Target" [] t = "smb" -> "SMBTarget" [] OTHER -> "FileTarget"
\* The entries the root `targets` mapping of a document declares.
RootEntries(doc) == Root(doc).content
DistinctNames(es) == \A i, j \in DOMAIN es : i # j => es[i][1] # es[j][1]
\* The table UnmarshalYAML ranges over, in document order.
RangedEntries(doc) ==
    IF HasKey(Root(doc), "targets") /\ Value(Root(doc), "targets").kind = "mapping"
    THEN Value(Root(doc), "targets").content ELSE <<>>
Failing(es) == {i \in DOMAIN es : DecodeEntry(es[i][1], es[i][2]).err # NoError}
FirstFailing(es) == CHOOSE i \in Failing(es) : \A j \in Failing(es) : i <= j
\* The declaration behind the Target stored under name.
DeclOf(name) == Value(Value(Root(load.doc), "targets"), name)
WithURL(n, v) ==
    IF n.kind # "mapping" THEN n
    ELSE Mapping([i \in DOMAIN n.content |->
                    IF n.content[i][1] = "url" THEN <<"url", Scalar(v)>> ELSE n.content[i]])
\* The document with every declared url replaced by v.
WithURLs(doc, v) ==
    [doc EXCEPT !.es = [i \in DOMAIN doc.es |-> <<doc.es[i][1], WithURL(doc.es[i][2], v)>>]]
Set(opts) == {opts[i] : i \in DOMAIN opts}

\* C1: a document whose root `targets` mapping declares only well-formed
\* entries loads without error, and every declared name is bound to a Target
\* of the variant of its type, with Type() the declared type and URL() the
\* declared url.
C1_WellFormedLoads ==
    LET es == RootEntries(load.doc)
    IN (load.done /\ DistinctNames(es)
          /\ \A i \in DOMAIN es : es[i][2] \in WellFormedDecls)
       => /\ load.err = NoError
          /\ \A i \in DOMAIN es :
                /\ es[i][1] \in DOMAIN targets.m
                /\ targets.m[es[i][1]].variant = VariantOf(StringField(es[i][2], "type"))
                /\ Type(targets.m[es[i][1]]) = StringField(es[i][2], "type")
                /\ URL(targets.m[es[i][1]]) = StringField(es[i][2], "url")

\* C2: a document in which some declared target has a type outside
\* {s3, smb, file}, an absent type included, fails to load with an
\* unknown-target-type error that names the type of such a target.
C2_UnknownTypeRejected ==
    LET es == RootEntries(load.doc)
        bad == {i \in DOMAIN es : es[i][2] \in UnknownTypeDecls}
    IN (load.done /\ bad # {})
       => /\ load.err.kind = "unknown target type"
          /\ \E i \in bad : load.err.arg = StringField(es[i][2], "type")

\* C3: a Storage() call that reaches the constructor passes it an override
\* for exactly the optional fields the declaration sets, each with the
\* declared value, and none for a field that is absent or empty.
C3_OverridesOnlySetFields ==
    (resolved.done /\ resolved.ret.err = NoError /\ resolved.self.variant # "FileTarget")
    => LET d == DeclOf(resolved.name)
           opts == resolved.ret.store.opts
           declared ==
             IF resolved.self.variant = "S3Target"
             THEN {<<"WithRegion", StringField(d, "region")>>,
                   <<"WithEndpoint", StringField(d, "endpoint")>>,
                   <<"WithAccessKeyId", SubField(d, "credentials", "access-key-id")>>,
                   <<"WithSecretAccessKey", SubField(d, "credentials", "secret-access-key")>>}
             ELSE {<<"WithDomain", SubField(d, "credentials", "domain")>>,
                   <<"WithUsername", SubField(d, "credentials", "username")>>,
                   <<"WithPassword", SubField(d, "credentials", "password")>>}
       IN /\ resolved.ret.store.new =
               (IF resolved.self.variant = "S3Target" THEN "s3.New" ELSE "smb.New")
          /\ Set(opts) = {o \in declared : o[2] # ""}
          /\ Len(opts) = Cardinality(Set(opts))
C3_Witness ==
    /\ resolved.done /\ resolved.ret.err = NoError
    /\ resolved.self.variant = "S3Target"
    /\ resolved.self.Region = "us-east-1" /\ resolved.self.Endpoint = ""
    /\ resolved.ret.store.opts = << <<"WithRegion", "us-east-1">> >>

\* C4: when the URL parser refuses a Target's url, Storage() of any variant
\* returns an invalid-target-url error that carries the parser's error, and
\* no store: the constructor is not reached.
C4_InvalidURLFails ==
    (resolved.done /\ SmartParse(URL(resolved.self)).err # NoError)
    => /\ resolved.ret.err.kind = "invalid target url"
       /\ resolved.ret.err.arg = SmartParse(URL(resolved.self)).err.arg
       /\ resolved.ret.store = NilStorage
C4_Witness ==
    /\ resolved.done /\ resolved.self.variant = "S3Target"
    /\ URL(resolved.self) = BadURL
    /\ resolved.ret.err = Err("invalid target url", BadURL)

\* C5: when UnmarshalYAML fails, the Targets mapping it was decoding into is
\* as it was before the call: it holds none of the entries processed before
\* the failure.
C5_NoPartialResult ==
    (load.done /\ load.err # NoError) => targets = load.recv

\* C6 (as claimed): with two well-formed entries of the same name the load
\* succeeds and the name is bound to the later entry alone.
C6_LastWriteWins ==
    LET es == load.doc.es
    IN (load.done /\ ~DistinctNames(es) /\ \A i \in DOMAIN es : es[i][2] \in WellFormedDecls)
       => /\ load.err = NoError
          /\ \A i \in DOMAIN es :
                (\A j \in DOMAIN es : es[j][1] = es[i][1] => j <= i)
                => /\ es[i][1] \in DOMAIN targets.m
                   /\ targets.m[es[i][1]] = DecodeEntry(es[i][1], es[i][2]).v
\* C6 (amended): a `targets` table with two entries of the same name makes
\* the load fail with a yaml decode error before any entry is processed, and
\* the Targets mapping is left as it was.
C6_DuplicateRejected ==
    (load.done /\ ~DistinctNames(load.doc.es))
    => /\ load.err.kind = "yaml: unmarshal errors"
       /\ targets = load.recv
C6_Witness ==
    /\ load.done /\ load.doc.form = "nested" /\ ~load.recv.isNil
    /\ Len(load.doc.es) = 2 /\ load.doc.es[1][1] = load.doc.es[2][1]
    /\ \A i \in DOMAIN load.doc.es : load.doc.es[i][2] \in WellFormedDecls
    /\ load.err.kind = "yaml: unmarshal errors"

\* C7: encoding a loaded Config and decoding the text again succeeds and
\* gives the same Targets: the same names, each with the same variant,
\* Type(), URL() and optional fields.
C7_RoundTrip ==
    reloaded.done => (reloaded.err = NoError /\ reloaded.t.m = targets.m)

\* C8: the outcome of a load does not depend on what the declared urls are,
\* a stored Target carries its declared url whether it parses or not, and
\* after a failed Storage() call the mapping is unchanged and every target
\* resolves as it did before the call.
C8_URLCheckedAtResolve ==
    /\ load.done =>
         \A v \in {GoodURL, BadURL} :
            LET r == UnmarshalYAML(load.recv, Root(WithURLs(load.doc, v)), load.order)
            IN r.err = load.err /\ DOMAIN r.t.m = DOMAIN targets.m
    /\ (load.done /\ load.err = NoError) =>
         \A n \in DOMAIN targets.m : URL(targets.m[n]) = StringField(DeclOf(n), "url")
    /\ (resolved.done /\ resolved.ret.err # NoError) =>
         /\ DOMAIN resolved.before = DOMAIN targets.m
         /\ targets.m[resolved.name] = resolved.self
         /\ \A n \in DOMAIN targets.m : Storage(targets.m[n]) = resolved.before[n]
C8_Witness ==
    /\ load.done /\ load.err = NoError
    /\ resolved.done /\ resolved.ret.err # NoError
    /\ URL(targets.m[resolved.name]) = BadURL
    /\ \E n \in DOMAIN targets.m : n # resolved.name /\ Storage(targets.m[n]).err = NoError

\* C9: no step of a Storage() call changes the Targets mapping or the Target
\* it was called on, a finished call returned what its receiver's fields
\* determine, and two calls on equal Targets, whether they overlap or follow
\* one another, returned the same error and equally configured stores.
C9_Agree ==
    /\ \A w \in Workers :
          pc[w] # "idle" => (callee[w] \in DOMAIN targets.m /\ targets.m[callee[w]] = self[w])
    /\ \A w \in Workers : pc[w] = "done" => ret[w] = Storage(self[w])
    /\ \A w1, w2 \in Workers :
          (pc[w1] = "done" /\ pc[w2] = "done" /\ self[w1] = self[w2]) => ret[w1] = ret[w2]
    /\ \A w \in Workers :
          (lastDone.done /\ pc[w] = "done" /\ self[w] = lastDone.self) => ret[w] = lastDone.ret
C9_StoragePure == [][targets' = targets /\ C9_Agree']_vars
C9_Witness ==
    /\ lastDone.done /\ lastDone.ret.err = NoError /\ lastDone.ret.store.opts # <<>>
    /\ \E w1, w2 \in Workers :
          /\ w1 # w2 /\ pc[w1] = "done" /\ pc[w2] = "done"
          /\ self[w1] = self[w2] /\ self[w1] = lastDone.self

\* C10: every load of a document gives the same outcome whatever the order
\* in which the decoder visits the entries, and a failing load returns the
\* error of the first failing entry in document order.
C10_Deterministic ==
    load.done =>
       /\ \A o \in RangeOrders(Root(load.doc)) :
             UnmarshalYAML(load.recv, Root(load.doc), o).err = load.err
       /\ (DecodeTmpTargets(Root(load.doc)).err = NoError
             /\ Failing(RangedEntries(load.doc)) # {})
          => LET es == RangedEntries(load.doc)
                 i == FirstFailing(es)
             IN load.err = DecodeEntry(es[i][1], es[i][2]).err

====
